---- MODULE Spec2Model ----
\* Player ledger of the rock-paper-scissors wagering game:
\*   - the users API route (get-or-create a player row by wallet address),
\*   - the dashboard's withdraw button and its handleWithdraw callback,
\*   - the ledger operations the dashboard and the routes rely on
\*     (game outcome, withdrawal, player lookup), which live outside the
\*     files at hand and are taken from the design document.
EXTENDS Integers, Sequences, FiniteSets, TLC

\* ---------------------------------------------------------------- bounds
MaxReq == 2        \* requests sent to the users route
MaxGames == 2      \* game outcomes recorded in total
MaxCalls == 2      \* clicks on the withdraw button in total

\* ---------------------------------------------------------------- inputs
Wallets == {"W1", "W2"}
Methods == {"POST", "GET"}
\* game results: a won wager credits the stake, a lost one debits it
Wagers == {<<"Win", 1>>, <<"Loss", -1>>, <<"Tie", 0>>}
TransferResults == {"Success", "Failure", "Ambiguous"}

\* A JavaScript value found in req.body.publicKey: its typeof, and its
\* string / number content.
JSVal(t, s, n) == [t |-> t, s |-> s, n |-> n]
Undefined == JSVal("undefined", "", 0)
BodyKeys ==
  { Undefined, JSVal("string", "", 0), JSVal("string", "W1", 0),
    JSVal("string", "W2", 0), JSVal("number", "", 0), JSVal("number", "", 7) }

\* req.body: null, undefined, or an object with (or without) a publicKey
Body(t, publicKey) == [t |-> t, publicKey |-> publicKey]
Bodies ==
  {Body("null", Undefined), Body("undefined", Undefined)}
    \cup {Body("object", k) : k \in BodyKeys}

VARIABLES users, clock, reqs, dash, calls, wds
vars == <<users, clock, reqs, dash, calls, wds>>

\* ---------------------------------------------------------------- player rows
\* `null` as returned by findUnique, and the body of an error response.
NoRow ==
  [publicKey |-> "", wins |-> 0, losses |-> 0, ties |-> 0, balance |-> 0,
   createdAt |-> 0]

NewUserOneWin(publicKey, now) ==
  [publicKey |-> publicKey, wins |-> 1, losses |-> 0, ties |-> 0,
   balance |-> 0, createdAt |-> now]

\* data of prisma.user.create; createdAt is the column default
NewUser(publicKey, now) ==
  [publicKey |-> publicKey, wins |-> 0, losses |-> 0, ties |-> 0,
   balance |-> 0, createdAt |-> now]

RowsOf(tbl, publicKey) == { i \in 1..Len(tbl) : tbl[i].publicKey = publicKey }

\* prisma.user.findUnique({ where: { publicKey } })
findUnique(tbl, publicKey) ==
  IF RowsOf(tbl, publicKey) = {} THEN NoRow
  ELSE tbl[CHOOSE i \in RowsOf(tbl, publicKey) :
             \A j \in RowsOf(tbl, publicKey) : i <= j]

NoConstraint(tbl, publicKey) == FALSE

\* the unique index on User.publicKey
UniqueViolation(tbl, publicKey) == RowsOf(tbl, publicKey) # {}

createUpsert(tbl, publicKey, now) ==
  [ok |-> TRUE,
   tbl |-> IF RowsOf(tbl, publicKey) = {} THEN Append(tbl, NewUser(publicKey, now))
           ELSE [i \in 1..Len(tbl) |->
                   IF tbl[i].publicKey = publicKey THEN NewUser(publicKey, now)
                   ELSE tbl[i]],
   user |-> NewUser(publicKey, now)]

\* prisma.user.create({ data: {...} }): throws on the unique index,
\* otherwise inserts the row and returns it
create(tbl, publicKey, now) ==
  IF UniqueViolation(tbl, publicKey)
  THEN [ok |-> FALSE, tbl |-> tbl, user |-> NoRow]
  ELSE [ok |-> TRUE, tbl |-> Append(tbl, NewUser(publicKey, now)),
        user |-> NewUser(publicKey, now)]

\* ---------------------------------------------------------------- users route
\* JavaScript truthiness of a value
Truthy(v) ==
  \/ v.t = "string" /\ v.s # ""
  \/ v.t = "number" /\ v.n # 0

\* !publicKey || typeof publicKey !== 'string'
InvalidKey(v) == ~Truthy(v) \/ v.t # "string"

\* req.method === 'POST'
IsPost(method) == method = "POST"

\* A request of the users route: where its handler stands, its inputs, the
\* `publicKey` and `user` locals (publicKey stays undefined when the body
\* is not read or has none), the error caught or thrown, and the response
\* sent. `after` records the requests that were already answered
\* when this one arrived.
IdleReq ==
  [pc |-> "idle", method |-> "", publicKey |-> Undefined, user |-> NoRow,
   error |-> "none",
   status |-> 0, sent |-> 0, after |-> {}]

\* const { publicKey } = req.body: a TypeError unless the body is an object
Destructures(body) == body.t = "object"

\* res.status(code).json(body)
Send(rq, code, body) ==
  [rq EXCEPT !.pc = "done", !.status = code, !.user = body, !.sent = @ + 1]

\* A request arrives: the synchronous prefix of the handler, up to the
\* call of findUnique. The destructuring is outside the try: when it
\* throws, the handler ends without having sent anything.
Receive(r, method, body) ==
  /\ reqs[r].pc = "idle"
  /\ \A q \in 1..(r - 1) : reqs[q].pc # "idle"
  /\ LET rq == [reqs[r] EXCEPT !.method = method,
                               !.after = { a \in DOMAIN reqs :
                                            reqs[a].pc \in {"done", "threw"} }]
         rk == [rq EXCEPT !.publicKey = body.publicKey]
     IN reqs' = [reqs EXCEPT ![r] =
          IF IsPost(method)
          THEN IF ~Destructures(body)
               THEN [rq EXCEPT !.pc = "threw", !.error = "TypeError"]
               ELSE IF InvalidKey(body.publicKey) THEN Send(rk, 400, NoRow)
               ELSE [rk EXCEPT !.pc = "findUnique"]
          ELSE Send(rq, 405, NoRow)]
  /\ UNCHANGED <<users, clock, dash, calls, wds>>

\* The lookup runs in the database; the handler resumes with `user`.
FindUnique(r) ==
  /\ reqs[r].pc = "findUnique"
  /\ reqs' = [reqs EXCEPT ![r].user = findUnique(users, reqs[r].publicKey.s),
                          ![r].pc = "afterFind"]
  /\ UNCHANGED <<users, clock, dash, calls, wds>>

MissingAlways(user) == TRUE

\* !user
Missing(user) == user = NoRow

\* The lookup rejects (the database cannot be reached): the catch block.
FindUniqueRejects(r) ==
  /\ reqs[r].pc = "findUnique"
  /\ reqs' = [reqs EXCEPT ![r].pc = "catch", ![r].error = "storage"]
  /\ UNCHANGED <<users, clock, dash, calls, wds>>

\* if (!user) { create } ... res.status(200).json(user)
AfterFind(r) ==
  /\ reqs[r].pc = "afterFind"
  /\ reqs' = [reqs EXCEPT ![r] =
       IF Missing(reqs[r].user) THEN [reqs[r] EXCEPT !.pc = "create"]
       ELSE Send(reqs[r], 200, reqs[r].user)]
  /\ UNCHANGED <<users, clock, dash, calls, wds>>

\* The insert runs in the database: it commits the row, or throws.
Create(r) ==
  /\ reqs[r].pc = "create"
  /\ LET c == create(users, reqs[r].publicKey.s, clock)
     IN /\ users' = c.tbl
        /\ clock' = IF c.ok THEN clock + 1 ELSE clock
        /\ reqs' = [reqs EXCEPT ![r].user = IF c.ok THEN c.user ELSE reqs[r].user,
                                ![r].pc = IF c.ok THEN "afterCreate" ELSE "catch",
                                ![r].error = IF c.ok THEN "none" ELSE "unique"]
  /\ UNCHANGED <<dash, calls, wds>>

\* The insert rejects for another reason than the unique index: no row is
\* written, the catch block runs.
CreateRejects(r) ==
  /\ reqs[r].pc = "create"
  /\ reqs' = [reqs EXCEPT ![r].pc = "catch", ![r].error = "storage"]
  /\ UNCHANGED <<users, clock, dash, calls, wds>>

\* res.status(200).json(user) after the create
AfterCreate(r) ==
  /\ reqs[r].pc = "afterCreate"
  /\ reqs' = [reqs EXCEPT ![r] = Send(reqs[r], 200, reqs[r].user)]
  /\ UNCHANGED <<users, clock, dash, calls, wds>>

\* catch (error) { res.status(500).json(...) }
Catch(r) ==
  /\ reqs[r].pc = "catch"
  /\ reqs' = [reqs EXCEPT ![r] = Send(reqs[r], 500, NoRow)]
  /\ UNCHANGED <<users, clock, dash, calls, wds>>

\* ---------------------------------------------------------------- ledger
Total(tbl) ==
  LET RECURSIVE Sum(_)
      Sum(i) == IF i = 0 THEN 0
                ELSE tbl[i].wins + tbl[i].losses + tbl[i].ties + Sum(i - 1)
  IN Sum(Len(tbl))

\* the counter matching the outcome is incremented, the balance is set
Settle(row, outcome, delta) ==
  [row EXCEPT !.wins = IF outcome = "Win" THEN @ + 1 ELSE @,
              !.losses = IF outcome = "Loss" THEN @ + 1 ELSE @,
              !.ties = IF outcome = "Tie" THEN @ + 1 ELSE @,
              !.balance = @ + delta]

\* recordOutcome(walletAddress, outcome, wagerDelta): resolve or create the
\* player, reject a balance that would go negative, else apply in one
\* transaction
recordOutcome(tbl, publicKey, outcome, delta, now) ==
  LET cur == findUnique(tbl, publicKey)
      bal == IF cur = NoRow THEN 0 ELSE cur.balance
  IN IF bal + delta < 0 THEN [ok |-> FALSE, tbl |-> tbl, made |-> FALSE]
     ELSE IF cur = NoRow
     THEN [ok |-> TRUE, made |-> TRUE,
           tbl |-> Append(tbl, Settle(NewUser(publicKey, now), outcome, delta))]
     ELSE [ok |-> TRUE, made |-> FALSE,
           tbl |-> [i \in 1..Len(tbl) |->
                      IF tbl[i].publicKey = publicKey
                      THEN Settle(tbl[i], outcome, delta) ELSE tbl[i]]]

RecordOutcome(publicKey, outcome, delta) ==
  /\ Total(users) < MaxGames
  /\ LET o == recordOutcome(users, publicKey, outcome, delta, clock)
     IN /\ o.ok
        /\ users' = o.tbl
        /\ clock' = IF o.made THEN clock + 1 ELSE clock
  /\ UNCHANGED <<reqs, dash, calls, wds>>

\* A game result the ledger refuses: InsufficientBalance, nothing applied.
RejectOutcome(publicKey, outcome, delta) ==
  /\ Total(users) < MaxGames
  /\ ~recordOutcome(users, publicKey, outcome, delta, clock).ok
  /\ UNCHANGED vars

\* ---------------------------------------------------------------- withdrawal (server)
\* steps 1 and 2 of withdraw: the amount is the balance read for the wallet
WithdrawPrecheck(row) ==
  IF row = NoRow THEN 400
  ELSE IF row.balance <= 0 THEN 400
  ELSE 0

\* the attempt recorded for a withdraw request that has been sent
NewAttempt(publicKey) ==
  [publicKey |-> publicKey, spc |-> "received", amount |-> 0,
   result |-> "none", status |-> "Pending", code |-> 0]

\* POST /api/withdraw { publicKey } sent by some client
WithdrawRequest(publicKey) ==
  /\ Len(wds) < MaxCalls
  /\ wds' = Append(wds, NewAttempt(publicKey))
  /\ UNCHANGED <<users, clock, reqs, dash, calls>>

\* The request reaches the server: read the balance, validate.
WithdrawRead(i) ==
  /\ wds[i].spc = "received"
  /\ LET row == findUnique(users, wds[i].publicKey)
         code == WithdrawPrecheck(row)
     IN wds' = [wds EXCEPT ![i] =
          IF code # 0
          THEN [@ EXCEPT !.spc = "responded", !.code = code, !.status = "Failed"]
          ELSE [@ EXCEPT !.spc = "transfer", !.amount = row.balance]]
  /\ UNCHANGED <<users, clock, reqs, dash, calls>>

\* transfer(walletAddress, amount) -> Success | Failure | Ambiguous
Transfer(i, result) ==
  /\ wds[i].spc = "transfer"
  /\ wds' = [wds EXCEPT ![i].spc = "settle", ![i].result = result]
  /\ UNCHANGED <<users, clock, reqs, dash, calls>>

debitUnchecked(tbl, publicKey, amount) ==
  [i \in 1..Len(tbl) |->
     IF tbl[i].publicKey = publicKey
     THEN [tbl[i] EXCEPT !.balance = @ - amount] ELSE tbl[i]]

\* balance -= amount, only where the balance still covers the amount
debit(tbl, publicKey, amount) ==
  [i \in 1..Len(tbl) |->
     IF tbl[i].publicKey = publicKey /\ tbl[i].balance >= amount
     THEN [tbl[i] EXCEPT !.balance = @ - amount] ELSE tbl[i]]

\* steps 4 and 5 of withdraw
WithdrawSettle(i) ==
  /\ wds[i].spc = "settle"
  /\ LET row == findUnique(users, wds[i].publicKey)
         covered == row.balance >= wds[i].amount
     IN IF wds[i].result = "Success"
        THEN /\ users' = debit(users, wds[i].publicKey, wds[i].amount)
             /\ wds' = [wds EXCEPT ![i].spc = "responded",
                          ![i].status = IF covered THEN "Succeeded" ELSE "Failed",
                          ![i].code = IF covered THEN 200 ELSE 409]
        ELSE /\ users' = users
             /\ wds' = [wds EXCEPT ![i].spc = "responded",
                          ![i].status = "Failed",
                          ![i].code = 502]
  /\ UNCHANGED <<clock, reqs, dash, calls>>

\* ---------------------------------------------------------------- dashboard
DashWallets == {"W1"}

NoStats == [kind |-> "undefined", row |-> NoRow]

\* useWallet() delivers the connected wallet
WalletConnect(publicKey) ==
  /\ dash.publicKeyString = ""
  /\ dash' = [dash EXCEPT !.publicKeyString = publicKey]
  /\ UNCHANGED <<users, clock, reqs, calls, wds>>

\* GET /api/users/<publicKey>: the player, or NotFound
get(tbl, publicKey) ==
  IF findUnique(tbl, publicKey) = NoRow THEN [kind |-> "error", row |-> NoRow]
  ELSE [kind |-> "data", row |-> findUnique(tbl, publicKey)]

\* a GET of the stats that the server has not yet read
GetReq == [kind |-> "request", row |-> NoRow]

\* useSWR(key, fetcher, { refreshInterval }): the fetcher issues the GET;
\* the next poll is scheduled when the previous one has settled
StatsFetch ==
  /\ dash.publicKeyString # ""
  /\ dash.gets = {}
  /\ dash' = [dash EXCEPT !.gets = @ \cup {GetReq}]
  /\ UNCHANGED <<users, clock, reqs, calls, wds>>

\* The GET reaches the server, which reads the table; the answer travels.
ServerGet ==
  /\ GetReq \in dash.gets
  /\ dash' = [dash EXCEPT
       !.gets = (@ \ {GetReq}) \cup {get(users, dash.publicKeyString)}]
  /\ UNCHANGED <<users, clock, reqs, calls, wds>>

\* fetch(url).then((res) => res.json()) settles: stats become whatever
\* JSON the route answered
StatsArrive(g) ==
  /\ g \in dash.gets /\ g # GetReq
  /\ dash' = [dash EXCEPT !.gets = @ \ {g}, !.stats = g]
  /\ UNCHANGED <<users, clock, reqs, calls, wds>>

\* the fetcher rejects: stats keep their value
StatsFetchFails(g) ==
  /\ g \in dash.gets
  /\ dash' = [dash EXCEPT !.gets = @ \ {g}]
  /\ UNCHANGED <<users, clock, reqs, calls, wds>>

DisabledNoFlag(ds) ==
  \/ ds.stats.kind = "undefined"
  \/ ds.stats.kind = "data" /\ ds.stats.row.balance <= 0

\* disabled={isWithdrawing || !stats || stats.balance <= 0}
Disabled(ds) ==
  \/ ds.isWithdrawing
  \/ ds.stats.kind = "undefined"
  \/ ds.stats.kind = "data" /\ ds.stats.row.balance <= 0

\* onClick={handleWithdraw}, up to the fetch
HandleWithdraw ==
  /\ ~Disabled(dash)
  /\ Len(calls) < MaxCalls
  /\ IF dash.publicKeyString = ""
     THEN UNCHANGED <<dash, calls, wds>>
     ELSE /\ dash' = [dash EXCEPT !.isWithdrawing = TRUE]
          /\ calls' = Append(calls, [cpc |-> "fetch", ok |-> FALSE,
                                     toast |-> "none"])
          /\ wds' = Append(wds, NewAttempt(dash.publicKeyString))
  /\ UNCHANGED <<users, clock, reqs>>

\* response.ok
Ok(code) == code >= 200 /\ code <= 299

\* await fetch(...) resolves with the server's response
FetchResolve(i) ==
  /\ calls[i].cpc = "fetch"
  /\ wds[i].spc = "responded"
  /\ calls' = [calls EXCEPT ![i].cpc = "json", ![i].ok = Ok(wds[i].code)]
  /\ UNCHANGED <<users, clock, reqs, dash, wds>>

ToastAlwaysSuccess(ok) == "success"

\* toast.success / toast.error
ToastFor(ok) == IF ok THEN "success" ELSE "error"

\* await response.json() resolves; the rest of handleWithdraw runs:
\* the toast, on success mutateStats() (a GET of the stats is issued),
\* then the reset of the flag
JsonDone(i) ==
  /\ calls[i].cpc = "json"
  /\ calls' = [calls EXCEPT ![i].cpc = "done", ![i].toast = ToastFor(calls[i].ok)]
  /\ dash' = [dash EXCEPT !.isWithdrawing = FALSE,
                          !.gets = IF calls[i].ok THEN @ \cup {GetReq} ELSE @]
  /\ UNCHANGED <<users, clock, reqs, wds>>

\* fetch or response.json() rejects: the catch block, then the reset
ClientCatch(i) ==
  /\ calls[i].cpc \in {"fetch", "json"}
  /\ calls' = [calls EXCEPT ![i].cpc = "done", ![i].toast = "error"]
  /\ dash' = [dash EXCEPT !.isWithdrawing = FALSE]
  /\ UNCHANGED <<users, clock, reqs, wds>>

Init ==
  /\ users = <<>>
  /\ clock = 1
  /\ reqs = [r \in 1..MaxReq |-> IdleReq]
  /\ dash = [publicKeyString |-> "", stats |-> NoStats, gets |-> {},
             isWithdrawing |-> FALSE]
  /\ calls = <<>>
  /\ wds = <<>>

Calls == 1..Len(calls)

\* ---------------------------------------------------------------- specifications
\* the wagers that move the balance
Stakes == {g \in Wagers : g[2] # 0}

\* The users route under concurrent requests, with game outcomes settling
\* in between.
NextUsers ==
  \/ \E r \in 1..MaxReq, m \in Methods, b \in Bodies : Receive(r, m, b)
  \/ \E r \in 1..MaxReq : FindUnique(r)
  \/ \E r \in 1..MaxReq : FindUniqueRejects(r)
  \/ \E r \in 1..MaxReq : AfterFind(r)
  \/ \E r \in 1..MaxReq : Create(r)
  \/ \E r \in 1..MaxReq : CreateRejects(r)
  \/ \E r \in 1..MaxReq : AfterCreate(r)
  \/ \E r \in 1..MaxReq : Catch(r)
  \/ \E w \in Wallets, g \in Stakes : RecordOutcome(w, g[1], g[2])
  \/ \E w \in Wallets, g \in Stakes : RejectOutcome(w, g[1], g[2])

SpecUsers == Init /\ [][NextUsers]_vars

Attempts == 1..Len(wds)

\* One wallet's ledger on the server: its get-or-create, its game outcomes
\* and concurrent withdraw requests.
NextLedger ==
  \/ \E w \in DashWallets : Receive(1, "POST", Body("object", JSVal("string", w, 0)))
  \/ FindUnique(1)
  \/ FindUniqueRejects(1)
  \/ AfterFind(1)
  \/ Create(1)
  \/ CreateRejects(1)
  \/ AfterCreate(1)
  \/ Catch(1)
  \/ \E w \in DashWallets, g \in Wagers : RecordOutcome(w, g[1], g[2])
  \/ \E w \in DashWallets, g \in Wagers : RejectOutcome(w, g[1], g[2])
  \/ \E w \in DashWallets : WithdrawRequest(w)
  \/ \E i \in Attempts : WithdrawRead(i)
  \/ \E i \in Attempts, res \in TransferResults : Transfer(i, res)
  \/ \E i \in Attempts : WithdrawSettle(i)

SpecLedger == Init /\ [][NextLedger]_vars

\* The dashboard and the withdrawals it starts, with the wallet's game
\* outcomes settling in between.
NextDash ==
  \/ \E w \in DashWallets, g \in Stakes : RecordOutcome(w, g[1], g[2])
  \/ \E w \in DashWallets, g \in Stakes : RejectOutcome(w, g[1], g[2])
  \/ \E w \in DashWallets : WalletConnect(w)
  \/ StatsFetch
  \/ ServerGet
  \/ \E g \in dash.gets : StatsArrive(g)
  \/ \E g \in dash.gets : StatsFetchFails(g)
  \/ HandleWithdraw
  \/ \E i \in Calls : WithdrawRead(i)
  \/ \E i \in Calls, res \in TransferResults : Transfer(i, res)
  \/ \E i \in Calls : WithdrawSettle(i)
  \/ \E i \in Calls : FetchResolve(i)
  \/ \E i \in Calls : JsonDone(i)
  \/ \E i \in Calls : ClientCatch(i)

SpecDash == Init /\ [][NextDash]_vars

\* A settled promise's continuation is run by the event loop: once the
\* server has answered, the fetch and then the body settle and
\* handleWithdraw resumes.
Resume(i) ==
  /\ i \in Calls
  /\ wds[i].spc = "responded"
  /\ (FetchResolve(i) \/ JsonDone(i) \/ ClientCatch(i))

LiveDash ==
  /\ Init /\ [][NextDash]_vars
  /\ \A i \in 1..MaxCalls : WF_vars(Resume(i))

\* ---------------------------------------------------------------- properties
Reqs == 1..MaxReq
Arrived(r) == reqs[r].pc # "idle"
Key(r) == reqs[r].publicKey.s
ValidPost(r) ==
  /\ Arrived(r)
  /\ reqs[r].method = "POST"
  /\ reqs[r].publicKey.t = "string"
  /\ reqs[r].publicKey.s # ""
Identity(row) == <<row.publicKey, row.createdAt>>

\* C1: whatever the interleaving of concurrent get-or-create requests, the
\* player table never holds more than one row for a wallet address.
C1_OneRowPerWallet ==
  \A w \in Wallets : Cardinality(RowsOf(users, w)) <= 1

\* two requests for the same absent wallet both saw no row; one has inserted
\* it and the other's insert has been refused
C1_Witness ==
  \E a, b \in Reqs :
    /\ a # b /\ Key(a) = Key(b)
    /\ reqs[a].pc = "afterCreate" /\ reqs[b].pc = "catch"
    /\ reqs[b].error = "unique"
    /\ Cardinality(RowsOf(users, Key(a))) = 1

\* C2: a request whose insert hits the unique index re-reads the row and
\* answers 200 with the player; it does not answer with an error.
C2_LoserReReads ==
  [][\A r \in Reqs :
       (reqs[r].pc = "catch" /\ reqs[r].error = "unique" /\ reqs'[r].pc = "done")
         => /\ reqs'[r].status = 200
            /\ reqs'[r].user = findUnique(users', Key(r))]_vars

\* C3: of two successive get-or-create calls for one wallet address, the
\* second inserts no row, answers 200 unless the lookup itself failed, and
\* returns the identity the first returned.
C3_Idempotent ==
  \A a, b \in Reqs :
    (/\ a \in reqs[b].after /\ ValidPost(a) /\ ValidPost(b) /\ Key(a) = Key(b)
     /\ (reqs[a].status = 200 \/ reqs[a].error = "unique"))
      => /\ reqs[b].pc \notin {"create", "afterCreate"}
         /\ reqs[b].error # "unique"
         /\ reqs[b].pc = "done"
              => /\ \/ reqs[b].status = 200
                    \/ reqs[b].status = 500 /\ reqs[b].error = "storage"
                 /\ (reqs[a].status = 200 /\ reqs[b].status = 200)
                      => Identity(reqs[b].user) = Identity(reqs[a].user)

C3_Witness ==
  \E a, b \in Reqs :
    /\ a \in reqs[b].after /\ ValidPost(a) /\ ValidPost(b) /\ Key(a) = Key(b)
    /\ reqs[a].status = 200 /\ reqs[b].pc = "done" /\ reqs[b].status = 200
    /\ Cardinality(RowsOf(users, Key(a))) = 1

\* C4: a get-or-create whose insert finds no row for the address (and is
\* not refused by the storage) appends a row with wins, losses, ties and
\* balance all 0, and answers 200 with that row.
C4_CreatesZeroRow ==
  [][\A r \in Reqs :
       /\ (reqs[r].pc = "create" /\ reqs'[r].pc # "create"
           /\ RowsOf(users, Key(r)) = {} /\ reqs'[r].error # "storage")
            => /\ Len(users') = Len(users) + 1
               /\ \A i \in 1..Len(users) : users'[i] = users[i]
               /\ LET row == users'[Len(users')]
                  IN /\ row.publicKey = Key(r)
                     /\ row.wins = 0 /\ row.losses = 0 /\ row.ties = 0
                     /\ row.balance = 0
                     /\ reqs'[r].user = row
               /\ reqs'[r].pc = "afterCreate"
       /\ (reqs[r].pc = "afterCreate" /\ reqs'[r].pc # "afterCreate")
            => /\ reqs'[r].pc = "done" /\ reqs'[r].status = 200
               /\ reqs'[r].user = reqs[r].user
               /\ reqs'[r].user.wins = 0 /\ reqs'[r].user.losses = 0
               /\ reqs'[r].user.ties = 0 /\ reqs'[r].user.balance = 0]_vars

\* the insert has committed a fresh row and the handler is about to answer
C4_Witness ==
  \E r \in Reqs :
    /\ reqs[r].pc = "afterCreate"
    /\ \E i \in 1..Len(users) : users[i] = reqs[r].user

\* C5: a POST whose publicKey is missing, empty or not a string is answered
\* 400 at once, and neither reads nor changes the player table.
BadKey(v) == v.t # "string" \/ v.s = ""
C5_BadKeyRejected ==
  [][\A r \in Reqs :
       (reqs[r].pc = "idle" /\ reqs'[r].pc # "idle"
        /\ reqs'[r].method = "POST" /\ BadKey(reqs'[r].publicKey))
         => /\ reqs'[r].pc = "done" /\ reqs'[r].status = 400
            /\ reqs'[r].sent = 1 /\ reqs'[r].user = NoRow
            /\ users' = users /\ clock' = clock]_vars

\* C6: no step of a get-or-create for an address that has a row changes
\* that row or any other row of the table.
C6_ExistingRowsKept ==
  [][\A r \in Reqs :
       (reqs'[r] # reqs[r] /\ RowsOf(users, reqs'[r].publicKey.s) # {})
         => users' = users]_vars

\* a player with a settled game was fetched by get-or-create and is intact
C6_Witness ==
  \E r \in Reqs :
    /\ reqs[r].pc = "done" /\ reqs[r].status = 200
    /\ reqs[r].user.wins + reqs[r].user.losses + reqs[r].user.ties > 0
    /\ \E i \in 1..Len(users) : users[i] = reqs[r].user

\* C7: in every reachable state every player's balance is >= 0, whatever the
\* interleaving of get-or-create, won and lost wagers and withdrawals.
C7_BalanceNonNegative ==
  \A i \in 1..Len(users) : users[i].balance >= 0

\* a withdrawal was approved against a balance that a lost wager then
\* took: the transfer was confirmed, the debit was refused, and the balance
\* is 0
C7_Witness ==
  \E j \in Attempts :
    /\ wds[j].result = "Success" /\ wds[j].code = 409 /\ wds[j].amount > 0
    /\ \A i \in Attempts : wds[i].status # "Succeeded"
    /\ findUnique(users, wds[j].publicKey).losses > 0
    /\ findUnique(users, wds[j].publicKey).balance = 0

\* C8: a withdrawal changes the player table only in the step that settles
\* a confirmed transfer; when the transfer failed or timed out the table is
\* left as it was, the response is an error, and the dashboard shows the
\* error toast.
C8_DebitOnlyOnSuccess ==
  /\ [][\A i \in 1..Len(wds') :
          (i > Len(wds) \/ wds'[i] # wds[i])
            => \/ users' = users
               \/ /\ i <= Len(wds) /\ wds[i].spc = "settle"
                  /\ wds[i].result = "Success"]_vars
  /\ [](\A i \in Calls :
          (wds[i].spc = "responded" /\ wds[i].result \in {"Failure", "Ambiguous"})
            => /\ ~(wds[i].code >= 200 /\ wds[i].code <= 299)
               /\ wds[i].status # "Succeeded"
               /\ calls[i].cpc = "done" => calls[i].toast = "error")

\* a transfer failed, the dashboard reported it, the balance is still there
C8_Witness ==
  \E i \in Calls :
    /\ wds[i].spc = "responded" /\ wds[i].result \in {"Failure", "Ambiguous"}
    /\ calls[i].cpc = "done" /\ calls[i].toast = "error"
    /\ findUnique(users, wds[i].publicKey).balance = wds[i].amount
    /\ wds[i].amount > 0

\* C9: while a handleWithdraw call is pending isWithdrawing is true; a call
\* starts only with the flag false, stats present and no balance <= 0 in
\* them, and it sets the flag; so at most one call is pending; and once
\* the server has answered the pending call the flag eventually returns
\* to false.
InFlight == { i \in Calls : calls[i].cpc # "done" }
C9_OneWithdrawInFlight ==
  /\ [](/\ InFlight # {} => dash.isWithdrawing
        /\ Cardinality(InFlight) <= 1)
  /\ [][Len(calls') > Len(calls)
          => /\ ~dash.isWithdrawing
             /\ dash.stats.kind # "undefined"
             /\ ~(dash.stats.kind = "data" /\ dash.stats.row.balance <= 0)
             /\ dash'.isWithdrawing]_vars
  /\ \A i \in 1..MaxCalls :
       (i \in InFlight /\ wds[i].spc = "responded") ~> ~dash.isWithdrawing

\* a first call has completed and reset the flag, a second one is pending
C9_Witness ==
  /\ Len(calls) >= 2
  /\ calls[1].cpc = "done" /\ calls[2].cpc # "done"
  /\ dash.isWithdrawing

\* C10: every request gets one response, with status 200, 400, 405 or 500;
\* a request that is not a POST gets 405 without touching the player
\* table; a 200 answers a POST with a non-empty string publicKey and
\* carries the row stored for it.
Ended(r) == reqs[r].pc \in {"done", "threw"}
C10_Responses ==
  \A r \in Reqs :
    /\ reqs[r].sent <= 1
    /\ Ended(r) => reqs[r].sent = 1
    /\ reqs[r].sent = 1 => reqs[r].status \in {200, 400, 405, 500}
    /\ (Arrived(r) /\ reqs[r].method # "POST")
         => reqs[r].pc = "done" /\ reqs[r].status = 405 /\ reqs[r].user = NoRow
    /\ reqs[r].status = 200
         => /\ ValidPost(r)
            /\ reqs[r].user.publicKey = Key(r)
            /\ \E i \in 1..Len(users) : Identity(users[i]) = Identity(reqs[r].user)
====
